---- MODULE Spec2Model ----
(***************************************************************************)
(* ModManager: the in-process event dispatcher (utils/dispatcher.py), the  *)
(* persistence service's subscriptions (utils/database/service.py) and the *)
(* mod installer (utils/mod_installer.py), as state machines.              *)
(*                                                                         *)
(* Spec        : the dispatcher and the service's subscribe/unsubscribe.   *)
(* SpecInstall : install_mod against the dispatcher, storage and files.    *)
(***************************************************************************)
EXTENDS Integers, Sequences, FiniteSets, TLC

\* ------------------------------------------------------------------------
\* Bounds of the model
\* ------------------------------------------------------------------------
\* number of register calls made by components other than the service
MaxRegs == 2
\* number of subscribe_to_events calls of the persistence service
MaxSubscribeCalls == 2

\* install_mod calls made
MaxInstalls == 2

\* ------------------------------------------------------------------------
\* Values
\* ------------------------------------------------------------------------
None == "None"

\* None, where the value is a row or None (Optional[Dict[str, Any]])
NoneRow == [none |-> TRUE]

Namespaces == {"global", "core"}

\* the callbacks components other than the service register; each stands
\* for a Python function: views.on_a is another function that is also named
\* on_a, the __name__ of the others is the string itself
UserFunctions == {"on_a", "views.on_a", "on_raise"}

\* events components other than the service register for
UserEvents == {"BROADCAST_APPLICATION_SHUTDOWN"}

\* the subscriptions of the persistence service, in the order listed
get_subscriptions ==
    << [event |-> "BROADCAST_APPLICATION_SHUTDOWN", function |-> "_on_broadcast_application_shutdown"],
       [event |-> "REQUEST_GET_ALL_GAMES",      function |-> "_on_request_get_all_games"],
       [event |-> "REQUEST_GET_ALL_MODS",       function |-> "_on_request_get_all_mods"],
       [event |-> "REQUEST_GET_GAME_BY_ID",     function |-> "_on_request_get_game_by_id"],
       [event |-> "REQUEST_GET_GAME_BY_CODE",   function |-> "_on_request_get_game_by_code"],
       [event |-> "REQUEST_GET_GAMES_BY_IDS",   function |-> "_on_request_get_games_by_ids"],
       [event |-> "REQUEST_GET_GAMES_BY_CODES", function |-> "_on_request_get_games_by_codes"],
       [event |-> "REQUEST_GET_MOD_BY_CODE",    function |-> "_on_request_get_mod_by_code"],
       [event |-> "REQUEST_GET_MOD_BY_ID",      function |-> "_on_request_get_mod_by_id"],
       [event |-> "REQUEST_INSERT_GAME",        function |-> "_on_request_insert_game"],
       [event |-> "REQUEST_INSERT_MOD",         function |-> "_on_request_insert_mod"],
       [event |-> "REQUEST_GET_MODS_BY_CODES",  function |-> "_on_request_get_mods_by_codes"],
       [event |-> "REQUEST_GET_MODS_BY_IDS",    function |-> "_on_request_get_mods_by_ids"],
       [event |-> "REQUEST_GET_MODS_FOR_GAME",  function |-> "_on_request_get_mods_for_game"],
       [event |-> "REQUEST_SEARCH_GAMES",       function |-> "_on_request_search_games"],
       [event |-> "REQUEST_SEARCH_MODS",        function |-> "_on_request_search_mods"],
       [event |-> "REQUEST_UPDATE_GAME",        function |-> "_on_request_update_game"],
       [event |-> "REQUEST_UPDATE_MOD",         function |-> "_on_request_update_mod"] >>

ServiceFunctions == {get_subscriptions[i].function : i \in DOMAIN get_subscriptions}
ServiceEvents == {get_subscriptions[i].event : i \in DOMAIN get_subscriptions}

VARIABLES
    SUBSCRIPTIONS,      \* dispatcher.SUBSCRIPTIONS: event -> namespace -> list
    uuidCount,          \* number of uuid4() values drawn by register so far
    REGISTRATION_IDS,   \* service.REGISTRATION_IDS
    regCalls,           \* register calls made by other components
    held,               \* the registration ids those components were given
    issued,             \* every id register has returned, in order
    subscribeCalls,     \* subscribe_to_events calls made
    database,           \* the storage: [games, mods], rows in rowid order
    fs,                 \* the files: archives, staged files, directories, links
    installCalls,       \* install_mod calls made
    storageCalls,       \* calls of the storage functions made
    loop,               \* the for loop of a dispatch that has not returned yet
    last                \* the last call made and what it returned

vars == <<SUBSCRIPTIONS, uuidCount, REGISTRATION_IDS, regCalls, held, issued, subscribeCalls, database, fs,
          installCalls, storageCalls, loop, last>>

\* ------------------------------------------------------------------------
\* Storage: the games and mods tables (rows in rowid order)
\* ------------------------------------------------------------------------
\* games.get_game_by_id: SELECT * FROM games WHERE id = ?, first row or None
get_game_by_id(db, game_id) ==
    LET hits == {i \in DOMAIN db.games : db.games[i].id = game_id}
    IN  IF hits = {} THEN NoneRow
        ELSE db.games[CHOOSE i \in hits : \A j \in hits : i <= j]

\* mods.get_mod_by_id: SELECT * FROM mods WHERE id = ?, first row or None
get_mod_by_id(db, mod_id) ==
    LET hits == {i \in DOMAIN db.mods : db.mods[i].id = mod_id}
    IN  IF hits = {} THEN NoneRow
        ELSE db.mods[CHOOSE i \in hits : \A j \in hits : i <= j]

\* ------------------------------------------------------------------------
\* The dispatcher's table
\* ------------------------------------------------------------------------
EmptyMap == [k \in {} |-> None]

\* the element of a one-element set; The({f(x) : x \in {e}}) is f(e) with e
\* evaluated once
The(S) == CHOOSE x \in S : TRUE

\* d[k] = v, as a Python dict assignment (the key is added when absent)
Put(d, k, v) == [x \in DOMAIN d \cup {k} |-> IF x = k THEN v ELSE d[x]]

\* the list SUBSCRIPTIONS[event][namespace], or the empty list when either
\* key is absent (only used where the code has checked the keys)
Bucket(subs, event, namespace) ==
    IF event \in DOMAIN subs /\ namespace \in DOMAIN subs[event]
    THEN subs[event][namespace]
    ELSE <<>>

Range(list) == {list[i] : i \in DOMAIN list}

\* every subscription of the table, whatever its bucket
AllSubscriptions(subs) ==
    UNION {Range(subs[b[1]][b[2]]) :
            b \in {c \in (DOMAIN subs) \X Namespaces : c[2] \in DOMAIN subs[c[1]]}}

AllIds(subs) == {s.registration_id : s \in AllSubscriptions(subs)}

\* list.remove(x): the list without its first element equal to x
ListRemove(list, x) ==
    LET hits == {i \in DOMAIN list : list[i] = x}
        k == CHOOSE i \in hits : \A j \in hits : i <= j
    IN  [i \in 1..(Len(list) - 1) |-> IF i < k THEN list[i] ELSE list[i + 1]]

\* dispatcher.register: creates the buckets when absent, appends the new
\* subscription; registration_id is the uuid4 drawn (here the count-th draw)
register(subs, event, function, namespace, persistent, registration_id) ==
    LET entry == [function |-> function, persistent |-> persistent,
                  registration_id |-> registration_id]
    IN  The({ The({ Put(withNs, event,
                        Put(withNs[event], namespace, Append(withNs[event][namespace], entry))) :
                    withNs \in {IF namespace \in DOMAIN withEvent[event] THEN withEvent
                                ELSE Put(withEvent, event,
                                         Put(withEvent[event], namespace, <<>>))} }) :
              withEvent \in {IF event \in DOMAIN subs THEN subs
                             ELSE Put(subs, event, EmptyMap)} })

\* unregister that reports True whether or not a subscription matched
unregister_returning_true(subs, registration_id) ==
    [subs |-> [e \in DOMAIN subs |->
                 [n \in DOMAIN subs[e] |->
                    SelectSeq(subs[e][n],
                              LAMBDA s : s.registration_id /= registration_id)]],
     ret |-> TRUE]

\* unregister that removes every subscription of the callback the id was
\* registered with
unregister_removing_callback(subs, registration_id) ==
    LET hit == {s \in AllSubscriptions(subs) : s.registration_id = registration_id}
    IN  [subs |-> [e \in DOMAIN subs |->
                     [n \in DOMAIN subs[e] |->
                        SelectSeq(subs[e][n],
                                  LAMBDA s : \A h \in hit : s.function /= h.function)]],
         ret |-> hit /= {}]

\* dispatcher.unregister: scans every bucket, removes the first subscription
\* whose registration_id matches and returns True; False when none matches
unregister(subs, registration_id) ==
    LET where == {<<e, n>> \in (DOMAIN subs) \X Namespaces :
                    /\ n \in DOMAIN subs[e]
                    /\ \E i \in DOMAIN subs[e][n] : subs[e][n][i].registration_id = registration_id}
    IN  IF where = {} THEN [subs |-> subs, ret |-> FALSE]
        ELSE LET b == CHOOSE b \in where : TRUE
                 list == subs[b[1]][b[2]]
                 hits == {i \in DOMAIN list : list[i].registration_id = registration_id}
                 first == list[CHOOSE i \in hits : \A j \in hits : i <= j]
             IN  [subs |-> Put(subs, b[1], Put(subs[b[1]], b[2], ListRemove(list, first))),
                  ret |-> TRUE]

\* for registration_id in ids: unregister(registration_id)
RECURSIVE UnregisterAll(_, _)
UnregisterAll(subs, ids) ==
    IF ids = <<>> THEN subs
    ELSE The({ UnregisterAll(rest, Tail(ids)) : rest \in {unregister(subs, Head(ids)).subs} })

\* unsubscribe_from_events that stops one short of the end of the list
unsubscribe_from_events_but_last(st) ==
    [st EXCEPT !.subs = UnregisterAll(st.subs, SubSeq(st.regIds, 1, Len(st.regIds) - 1)),
               !.regIds = <<>>]

\* service.unsubscribe_from_events: unregisters every recorded id, then
\* clears the list
unsubscribe_from_events(st) ==
    [st EXCEPT !.subs = UnregisterAll(st.subs, st.regIds), !.regIds = <<>>]

\* ------------------------------------------------------------------------
\* Storage writes
\* ------------------------------------------------------------------------
\* json.dumps of a str -> str mapping: a JSON text, which is not the mapping
json_dumps(mapping) == [json |-> mapping]

\* mapping.get(k, default)
Get(mapping, k, default) == IF k \in DOMAIN mapping THEN mapping[k] ELSE default

\* the argument named k of a call, or None when the caller left it out
Arg(kwargs, k) == Get(kwargs, k, None)

\* the arguments that take text; an argument of another type that is None is
\* left out of kwargs, as its default is None
TextArgs == {"code", "game_code", "name", "nexus_id", "registered_at", "version",
             "mod_archive_location", "mod_install_location", "path", "symlink_target"}

\* Path(path).as_posix() of the paths callers pass: a trailing separator is
\* dropped; a value that is no path (None) is stored as it is
as_posix(path) == IF path = "/mods/x/" THEN "/mods/x" ELSE path

\* the columns mods.update_mod copies as they are
ModPlainColumns == {"code", "game_code", "game_id", "installed", "name",
                    "nexus_id", "registered_at", "version"}
\* the columns mods.update_mod fills from its `path` argument
ModPathColumns == {"mod_archive_location", "mod_install_location", "path",
                   "symlink_target"}

\* mods.update_mod, lines 603-666: the column -> value mapping it builds from
\* the arguments that are not None
ModUpdateValues(kwargs) ==
    LET given == {k \in DOMAIN kwargs : ~(k \in TextArgs /\ kwargs[k] = None)}
        keys == given \cap (ModPlainColumns \cup ModPathColumns \cup {"symlinks"})
    IN  [k \in keys |->
            IF k \in ModPathColumns THEN as_posix(Arg(kwargs, "path"))
            ELSE IF k = "symlinks" THEN json_dumps(kwargs[k])
            ELSE kwargs[k]]

\* UPDATE mods SET ... WHERE id = ?: the rows afterwards; the statement fails,
\* changing nothing, when the storage fails or a UNIQUE column would repeat
SqlUpdateMods(db, storageOk, id, values) ==
    LET new == [i \in DOMAIN db.mods |->
                  IF db.mods[i].id = id
                  THEN [c \in DOMAIN db.mods[i] |->
                          IF c \in DOMAIN values THEN values[c] ELSE db.mods[i][c]]
                  ELSE db.mods[i]]
        unique == \A i, j \in DOMAIN new :
                    i /= j => /\ new[i].name /= new[j].name
                              /\ new[i].code /= new[j].code
    IN  IF storageOk /\ unique
        THEN [db EXCEPT !.mods = new]
        ELSE db

\* mods.update_mod: False when the row is missing or nothing is supplied;
\* otherwise runs the UPDATE and returns True
update_mod(db, storageOk, kwargs) ==
    IF ~(storageOk /\ get_mod_by_id(db, kwargs.id) /= NoneRow)
    THEN [db |-> db, ret |-> FALSE]
    ELSE IF DOMAIN ModUpdateValues(kwargs) = {}
    THEN [db |-> db, ret |-> FALSE]
    ELSE [db |-> SqlUpdateMods(db, storageOk, kwargs.id, ModUpdateValues(kwargs)),
          ret |-> TRUE]

\* ------------------------------------------------------------------------
\* Callbacks
\* ------------------------------------------------------------------------
\* function.__name__
FunctionName(function) == IF function = "views.on_a" THEN "on_a" ELSE function

\* the keyword arguments a service handler requires, and those it accepts
RequiredArgs(function) ==
    CASE function = "_on_request_get_game_by_id" -> {"game_id"}
      [] function = "_on_request_get_mod_by_id" -> {"mod_id"}
      [] function = "_on_request_update_mod" -> {"id"}
      [] OTHER -> {}

OptionalArgs(function) ==
    CASE function = "_on_request_update_mod" ->
            ModPlainColumns \cup ModPathColumns \cup {"symlinks"}
      [] OTHER -> {}

\* function(event=event, **kwargs): what the call returns or that it raised,
\* and the state it leaves.  st = [subs, regIds, db, storageOk]
Invoke(function, kwargs, st) ==
    IF function \in UserFunctions
    THEN CASE function = "on_a" -> [raised |-> FALSE, value |-> "a", st |-> st]
           [] function = "views.on_a" -> [raised |-> FALSE, value |-> "b", st |-> st]
           [] function = "on_raise" -> [raised |-> TRUE, value |-> None, st |-> st]
    ELSE IF ~(/\ RequiredArgs(function) \subseteq DOMAIN kwargs
              /\ DOMAIN kwargs \subseteq RequiredArgs(function) \cup OptionalArgs(function))
    THEN \* TypeError: missing or unexpected keyword argument
         [raised |-> TRUE, value |-> None, st |-> st]
    ELSE CASE function = "_on_broadcast_application_shutdown" ->
                [raised |-> FALSE, value |-> TRUE, st |-> unsubscribe_from_events(st)]
           [] function = "_on_request_get_game_by_id" ->
                [raised |-> FALSE,
                 value |-> IF st.storageOk THEN get_game_by_id(st.db, kwargs.game_id) ELSE NoneRow,
                 st |-> st]
           [] function = "_on_request_get_mod_by_id" ->
                [raised |-> FALSE,
                 value |-> IF st.storageOk THEN get_mod_by_id(st.db, kwargs.mod_id) ELSE NoneRow,
                 st |-> st]
           [] function = "_on_request_update_mod" ->
                LET db2 == update_mod(st.db, st.storageOk, kwargs).db
                IN  [raised |-> FALSE,
                     value |-> IF st.storageOk THEN get_mod_by_id(db2, kwargs.id) ELSE NoneRow,
                     st |-> [st EXCEPT !.db = db2]]

\* ------------------------------------------------------------------------
\* dispatcher.dispatch
\* ------------------------------------------------------------------------
\* a for loop that keeps the first value stored under a callback name
RECURSIVE FanOut_keeping_first(_, _, _, _, _)
FanOut_keeping_first(run, event, namespace, kwargs, i) ==
    IF i > Len(run.st.subs[event][namespace]) THEN run
    ELSE LET subscription == run.st.subs[event][namespace][i]
             name == FunctionName(subscription.function)
         IN  The({ FanOut_keeping_first(next, event, namespace, kwargs, i + 1) :
                   next \in { [st |-> out.st,
                               result |-> IF out.raised \/ name \in DOMAIN run.result
                                          THEN run.result
                                          ELSE Put(run.result, name, out.value),
                               calls |-> Append(run.calls, subscription.registration_id),
                               raises |-> IF out.raised
                                          THEN Append(run.raises, subscription.registration_id)
                                          ELSE run.raises,
                               non_persistenta |->
                                   IF ~subscription.persistent
                                   THEN Append(run.non_persistenta, subscription.registration_id)
                                   ELSE run.non_persistenta] :
                               out \in {Invoke(subscription.function, kwargs, run.st)} } })

\* lines 64-83: the for loop over the list SUBSCRIPTIONS[event][namespace],
\* from its i-th element on.  The loop reads the list as it is at each step.
\* run = [st, result, calls, raises, non_persistenta]
RECURSIVE FanOut(_, _, _, _, _)
FanOut(run, event, namespace, kwargs, i) ==
    IF i > Len(run.st.subs[event][namespace]) THEN run
    ELSE LET subscription == run.st.subs[event][namespace][i]
         IN  The({ FanOut(next, event, namespace, kwargs, i + 1) :
                   next \in { [st |-> out.st,
                               result |-> IF out.raised THEN run.result
                                          ELSE Put(run.result,
                                                   FunctionName(subscription.function),
                                                   out.value),
                               calls |-> Append(run.calls, subscription.registration_id),
                               raises |-> IF out.raised
                                          THEN Append(run.raises, subscription.registration_id)
                                          ELSE run.raises,
                               non_persistenta |->
                                   IF ~subscription.persistent
                                   THEN Append(run.non_persistenta, subscription.registration_id)
                                   ELSE run.non_persistenta] :
                               out \in {Invoke(subscription.function, kwargs, run.st)} } })

\* dispatch that creates the bucket it does not find, as a table of
\* defaultdicts would
dispatch_creating_bucket(event, namespace, kwargs, st) ==
    LET buckets == IF event \in DOMAIN st.subs THEN st.subs[event] ELSE EmptyMap
        list == IF namespace \in DOMAIN buckets THEN buckets[namespace] ELSE <<>>
        start == [st |-> [st EXCEPT !.subs = Put(st.subs, event,
                                                 Put(buckets, namespace, list))],
                  result |-> EmptyMap, calls |-> <<>>, raises |-> <<>>,
                  non_persistenta |-> <<>>]
    IN  The({ [run EXCEPT !.st.subs = UnregisterAll(run.st.subs, run.non_persistenta)] :
              run \in {FanOut(start, event, namespace, kwargs, 1)} })

\* dispatch(event, namespace, **kwargs): the result mapping, the state left,
\* the registration ids of the subscriptions invoked (calls) and of those
\* that raised (raises), in order
dispatch(event, namespace, kwargs, st) ==
    LET start == [st |-> st, result |-> EmptyMap, calls |-> <<>>, raises |-> <<>>,
                  non_persistenta |-> <<>>]
    IN  IF event \notin DOMAIN st.subs THEN start
        ELSE IF namespace \notin DOMAIN st.subs[event] THEN start
        ELSE The({ [run EXCEPT !.st.subs = UnregisterAll(run.st.subs, run.non_persistenta)] :
                   run \in {FanOut(start, event, namespace, kwargs, 1)} })

\* ------------------------------------------------------------------------
\* The dispatcher's operations, as called by the program's components
\* ------------------------------------------------------------------------
\* str(uuid.uuid4()): the value of the n-th draw; draws do not repeat
uuid4(n) == n

\* events dispatched: those registered for, a request of the service, and one
\* nothing registers for
DispatchEvents == UserEvents \cup {"REQUEST_GET_GAME_BY_ID", "MOD_MANAGER_WINDOW_CLOSED"}

\* the payload a caller sends with an event
Payload(event) ==
    CASE event = "REQUEST_GET_GAME_BY_ID" -> [game_id |-> 1]
      [] event = "REQUEST_GET_MOD_BY_ID" -> [mod_id |-> 1]
      [] event = "REQUEST_UPDATE_MOD" -> [id |-> 1, installed |-> TRUE]
      [] OTHER -> EmptyMap

NoCall == [op |-> "none", raised |-> FALSE, record |-> NoneRow, event |-> None, namespace |-> None, function |-> None,
           persistent |-> FALSE, id |-> 0, ret |-> None, result |-> EmptyMap,
           calls |-> <<>>, raises |-> <<>>, before |-> EmptyMap, beforeIds |-> <<>>,
           events |-> <<>>, mod |-> NoneRow, env |-> NoneRow, fsBefore |-> NoneRow,
           dbBefore |-> NoneRow, game |-> NoneRow, kwargs |-> EmptyMap]

\* no dispatch is running
NoLoop == [running |-> FALSE, ahead |-> <<>>, result |-> {}, drawn |-> 0]

State == [subs |-> SUBSCRIPTIONS, regIds |-> REGISTRATION_IDS, db |-> database, storageOk |-> TRUE]

Register(event, function, namespace, persistent) ==
    /\ regCalls < MaxRegs
    /\ LET registration_id == uuid4(uuidCount + 1)
       IN  /\ SUBSCRIPTIONS' = register(SUBSCRIPTIONS, event, function, namespace,
                                        persistent, registration_id)
           /\ last' = [NoCall EXCEPT !.op = "register", !.event = event,
                          !.namespace = namespace, !.function = function,
                          !.persistent = persistent, !.id = registration_id,
                          !.ret = registration_id, !.before = SUBSCRIPTIONS,
                          !.beforeIds = REGISTRATION_IDS]
    /\ uuidCount' = uuidCount + 1
    /\ regCalls' = regCalls + 1
    /\ held' = held \cup {uuid4(uuidCount + 1)}
    /\ issued' = Append(issued, uuid4(uuidCount + 1))
    /\ UNCHANGED <<REGISTRATION_IDS, subscribeCalls, database, fs, installCalls, storageCalls, loop>>

\* unregister(registration_id) by a component with an id it holds, or with an
\* id that was never issued
Unregister(registration_id) ==
    /\ registration_id \in held \cup {uuid4(uuidCount + 1)}
    /\ \E out \in {unregister(SUBSCRIPTIONS, registration_id)} :
           /\ SUBSCRIPTIONS' = out.subs
           /\ last' = [NoCall EXCEPT !.op = "unregister", !.id = registration_id,
                          !.ret = out.ret, !.before = SUBSCRIPTIONS,
                          !.beforeIds = REGISTRATION_IDS]
    /\ UNCHANGED <<uuidCount, REGISTRATION_IDS, regCalls, held, issued, subscribeCalls, database, fs, installCalls, storageCalls, loop>>

Dispatch(event, namespace) ==
    \E out \in {dispatch(event, namespace, Payload(event), State)} :
        /\ SUBSCRIPTIONS' = out.st.subs
        /\ REGISTRATION_IDS' = out.st.regIds
        /\ database' = out.st.db
        /\ last' = [NoCall EXCEPT !.op = "dispatch", !.event = event,
                       !.namespace = namespace, !.ret = out.result,
                       !.result = out.result, !.calls = out.calls,
                       !.raises = out.raises, !.before = SUBSCRIPTIONS,
                       !.beforeIds = REGISTRATION_IDS]
        /\ UNCHANGED <<uuidCount, regCalls, held, issued, subscribeCalls, fs, installCalls, storageCalls, loop>>

\* service.subscribe_to_events, lines 792-811: registers get_subscriptions()
\* from its i-th entry on, recording each id
RECURSIVE SubscribeFrom(_, _, _, _)
SubscribeFrom(subs, regIds, count, i) ==
    IF i > Len(get_subscriptions) THEN [subs |-> subs, regIds |-> regIds, count |-> count]
    ELSE LET registration_id == uuid4(count + 1)
         IN  The({ SubscribeFrom(next, Append(regIds, registration_id), count + 1, i + 1) :
                   next \in {register(subs, get_subscriptions[i].event,
                                      get_subscriptions[i].function, "global", TRUE,
                                      registration_id)} })

SubscribeToEvents ==
    /\ subscribeCalls < MaxSubscribeCalls
    /\ \E out \in {SubscribeFrom(SUBSCRIPTIONS, REGISTRATION_IDS, uuidCount, 1)} :
           /\ SUBSCRIPTIONS' = out.subs
           /\ REGISTRATION_IDS' = out.regIds
           /\ uuidCount' = out.count
           /\ issued' = issued \o SubSeq(out.regIds, Len(REGISTRATION_IDS) + 1, Len(out.regIds))
    /\ subscribeCalls' = subscribeCalls + 1
    /\ last' = [NoCall EXCEPT !.op = "subscribe_to_events", !.before = SUBSCRIPTIONS,
                   !.beforeIds = REGISTRATION_IDS]
    /\ UNCHANGED <<regCalls, held, database, fs, installCalls, storageCalls, loop>>

\* bootstrap.unregister_database_service_subscriptions
UnsubscribeFromEvents ==
    /\ \E out \in {unsubscribe_from_events(State)} :
           /\ SUBSCRIPTIONS' = out.subs
           /\ REGISTRATION_IDS' = out.regIds
    /\ last' = [NoCall EXCEPT !.op = "unsubscribe_from_events", !.before = SUBSCRIPTIONS,
                   !.beforeIds = REGISTRATION_IDS]
    /\ UNCHANGED <<uuidCount, regCalls, held, issued, subscribeCalls, database, fs, installCalls, storageCalls, loop>>

\* the files at start: archives, regular files that belong to no archive
\* (plain), files staged by an extraction, directories, and what is at the
\* link targets
InitFs == [archives |-> {}, plain |-> {}, staged |-> {}, dirs |-> {}, links |-> EmptyMap]

InitDb ==
    [games |-> << [id |-> 1, code |-> "g-1", name |-> "Skyrim", path |-> "/games/skyrim"] >>,
     mods |-> <<>>]

Init ==
    /\ SUBSCRIPTIONS = EmptyMap
    /\ uuidCount = 0
    /\ REGISTRATION_IDS = <<>>
    /\ regCalls = 0
    /\ held = {}
    /\ issued = <<>>
    /\ subscribeCalls = 0
    /\ database = InitDb
    /\ fs = InitFs
    /\ installCalls = 0
    /\ storageCalls = 0
    /\ loop = NoLoop
    /\ last = NoCall

Next ==
    \/ \E event \in UserEvents, function \in UserFunctions, namespace \in Namespaces,
          persistent \in BOOLEAN : Register(event, function, namespace, persistent)
    \/ \E registration_id \in 1..(uuidCount + 1) : Unregister(registration_id)
    \/ \E event \in DispatchEvents, namespace \in Namespaces : Dispatch(event, namespace)
    \/ SubscribeToEvents
    \/ UnsubscribeFromEvents

Spec == Init /\ [][Next]_vars

\* ------------------------------------------------------------------------
\* Files
\* ------------------------------------------------------------------------
\* constants.MOD_INSTALLED_PATH
MOD_INSTALLED_PATH == "/mods/installed"

\* directory / relative (pathlib's "/" and os.path.join)
Join(directory, relative) == directory \o "/" \o relative

\* the paths of regular files that the archives hold
Members == {"a.esp", "textures/b.dds", "c.esp"}

\* the regular files an archive holds
ArchiveContents(archive) ==
    CASE archive = "/downloads/alpha.zip" -> {"a.esp", "textures/b.dds"}
      [] archive = "/downloads/beta.zip" -> {"c.esp"}
      [] OTHER -> {}

\* path.relative_to(directory)
RelativeTo(path, directory) == CHOOSE r \in Members : Join(directory, r) = path

\* Join(directory, relative).parent
ParentOf(directory, relative) ==
    CASE relative = "textures/b.dds" -> Join(directory, "textures")
      [] OTHER -> directory

\* files.file_exists and files.directory_exists: path.exists()
file_exists(files, path) ==
    path \in files.archives \cup files.plain \cup files.dirs \cup files.staged
            \cup DOMAIN files.links

\* files.unpack_archive: the members written below destination.  extract is
\* "ok", or "partial" when the extraction raises after the first member
unpack_archive(files, source, destination, extract) ==
    LET all == ArchiveContents(source)
        written == IF extract = "ok" THEN all
                   ELSE {r \in all : \A q \in all : Len(r) <= Len(q)}
    IN  [files EXCEPT !.staged = @ \cup {Join(destination, r) : r \in written},
                      !.dirs = @ \cup {destination}]

\* an iterate_files that does not descend into subdirectories
iterate_files_top_level(files, directory) ==
    {f \in files.staged :
        \E r \in Members : f = Join(directory, r) /\ ParentOf(directory, r) = directory}

\* files.iterate_files: the regular files below directory
iterate_files(files, directory) ==
    {f \in files.staged : \E r \in Members : f = Join(directory, r)}

\* files.create_directory_if_not_exists: os.makedirs unless the path exists
create_directory_if_not_exists(files, path) ==
    IF file_exists(files, path) THEN files ELSE [files EXCEPT !.dirs = @ \cup {path}]

\* files.file_copy: shutil.copy; an exception is logged and swallowed.
\* works = the system does not refuse the copy.  Copying onto a link to the
\* source itself raises SameFileError and changes nothing.
file_copy(files, source, target, works) ==
    IF ~works THEN files
    ELSE IF target \in DOMAIN files.links /\ files.links[target].kind = "link"
    THEN files
    ELSE [files EXCEPT !.links = Put(@, target, [source |-> source, kind |-> "copy"])]

\* files.create_symlink: os.symlink (os.link on win32), and file_copy when
\* that raises; never raises itself.  outcome is what the system allows:
\* "link", "copy" (the link is refused, a copy is not) or "none" (both are
\* refused).  A link onto an existing path is always refused.
create_symlink(files, source, target, outcome) ==
    IF outcome = "link" /\ ~file_exists(files, target)
    THEN [files EXCEPT !.links = Put(@, target, [source |-> source, kind |-> "link"])]
    ELSE file_copy(files, source, target, outcome /= "none")

\* os.remove(path) goes through: path is a file or a link, not a directory
\* and not missing
CanRemove(files, path) ==
    path \in files.archives \cup files.plain \cup files.staged \cup DOMAIN files.links

\* files.remove_symlink: os.remove(path), whose exception it lets through
remove_symlink(files, path) ==
    IF ~CanRemove(files, path) THEN [raised |-> TRUE, files |-> files]
    ELSE [raised |-> FALSE,
          files |-> [files EXCEPT !.archives = @ \ {path}, !.plain = @ \ {path},
                                  !.staged = @ \ {path},
                                  !.links = [t \in DOMAIN files.links \ {path} |->
                                                files.links[t]]]]

\* files.file_remove: os.remove(path); an exception is logged and swallowed
file_remove(files, path) == remove_symlink(files, path).files

\* ------------------------------------------------------------------------
\* mod_installer.install_mod
\* ------------------------------------------------------------------------
\* lines 78-96, the loop over the staged files still to do: creates the
\* parent directory and the link of each and records it in symlinks.
\* acc = [files, symlinks]
RECURSIVE LinkFiles(_, _, _, _)
LinkFiles(acc, todo, mod, env) ==
    IF todo = {} THEN acc
    ELSE LET file_path == CHOOSE f \in todo : TRUE
             relative == RelativeTo(file_path, mod.mod_install_location)
             target_path == Join(mod.symlink_target, relative)
         IN  The({ LinkFiles(next, todo \ {file_path}, mod, env) :
                   next \in { [files |-> create_symlink(
                                            create_directory_if_not_exists(
                                                acc.files,
                                                ParentOf(mod.symlink_target, relative)),
                                            file_path, target_path, env.link[relative]),
                               symlinks |-> Put(acc.symlinks, file_path, target_path)] } })

\* a dispatch(...) made by the installer; the events it has dispatched so
\* far are kept in run.events, the last result mapping in run.reply
Emit(run, event, kwargs) ==
    The({ [run EXCEPT !.st = out.st, !.events = Append(@, event), !.reply = out.result] :
          out \in {dispatch(event, "global", kwargs, run.st)} })

\* a REQUEST_UPDATE_MOD dispatch that also marks the mod as installed
UpdateRequest_marking_installed(mod, symlinks) ==
    [id |-> mod.id, installed |-> TRUE, symlink_target |-> mod.symlink_target,
     symlinks |-> symlinks]

\* the keyword arguments of the REQUEST_UPDATE_MOD dispatch, lines 102-108
UpdateRequest(mod, symlinks) ==
    [id |-> mod.id, symlink_target |-> mod.symlink_target, symlinks |-> symlinks]

\* lines 38-43: the dispatch of REQUEST_GET_GAME_BY_ID
AskGame(mod, st) ==
    Emit([st |-> st, events |-> <<>>, reply |-> EmptyMap],
         "REQUEST_GET_GAME_BY_ID", [game_id |-> mod.game_id])

\* lines 66-143, the try block and what follows it: the value returned, the
\* record as the call leaves it, the state and the files left, and the events
\* dispatched, in order.  asked = the run after the game was looked up
\* env = [storageOk, extract, link]: what the storage does with the update
\* and what the system does with the files
InstallSteps(mod, env, asked, game, files) ==
    LET unpacked == unpack_archive(files, mod.mod_archive_location,
                                   mod.mod_install_location, env.extract)
        todo == iterate_files(unpacked, mod.mod_install_location)
        linked == LinkFiles([files |-> unpacked, symlinks |-> EmptyMap], todo, mod, env)
        mod2 == [mod EXCEPT !.symlinks = linked.symlinks]
        writing == [asked EXCEPT !.st.storageOk = env.storageOk]
    IN  IF mod.mod_install_location \in files.plain
        THEN \* unpack_archive raised: the destination is a regular file
             The({ [ret |-> FALSE, raised |-> FALSE, mod |-> mod, st |-> told.st,
                    files |-> files, events |-> told.events, game |-> game] :
                   told \in {Emit(asked, "BROADCAST_MOD_INSTALL_FAILED",
                                  [game |-> game, mod |-> mod])} })
        ELSE IF env.extract /= "ok"
        THEN \* unpack_archive raised, before writing or after the first member
             The({ [ret |-> FALSE, raised |-> FALSE, mod |-> mod, st |-> told.st,
                    files |-> IF env.extract = "partial" THEN unpacked ELSE files,
                    events |-> told.events, game |-> game] :
                   told \in {Emit(asked, "BROADCAST_MOD_INSTALL_FAILED",
                                  [game |-> game, mod |-> mod])} })
        ELSE IF todo /= {} /\ mod.symlink_target = None
        THEN \* Path(None) raised TypeError at the first staged file
             The({ [ret |-> FALSE, raised |-> FALSE, mod |-> mod, st |-> told.st,
                    files |-> unpacked,
                    events |-> told.events, game |-> game] :
                   told \in {Emit(asked, "BROADCAST_MOD_INSTALL_FAILED",
                                  [game |-> game, mod |-> mod])} })
        ELSE The({ [ret |-> TRUE, raised |-> FALSE, mod |-> mod2, st |-> told.st,
                    files |-> linked.files,
                    events |-> told.events, game |-> game] :
                   told \in { Emit(saved, "BROADCAST_MOD_INSTALL_SUCCESS",
                                   [game |-> game, mod |-> mod2]) :
                              saved \in {Emit(writing, "REQUEST_UPDATE_MOD",
                                              UpdateRequest(mod, linked.symlinks))} } })

\* install_mod without the check of lines 46-54 that the game was found
install_mod_without_game_check(mod, env, st, files) ==
    LET asked == AskGame(mod, st)
        game == Get(asked.reply, "_on_request_get_game_by_id", NoneRow)
    IN  IF ~file_exists(files, mod.mod_archive_location)
        THEN [ret |-> FALSE, raised |-> FALSE, mod |-> mod, st |-> asked.st,
              files |-> files, events |-> asked.events, game |-> game]
        ELSE InstallSteps(mod, env, asked, game, files)

\* install_mod(mod).  raised = the call ended with an exception instead of
\* a return value: Path(None) at line 56 raises TypeError outside the try
install_mod(mod, env, st, files) ==
    LET asked == AskGame(mod, st)
        game == Get(asked.reply, "_on_request_get_game_by_id", NoneRow)
        stop == [ret |-> FALSE, raised |-> FALSE, mod |-> mod, st |-> asked.st,
                 files |-> files, events |-> asked.events, game |-> game]
    IN  IF game = NoneRow THEN stop
        ELSE IF mod.mod_archive_location = None THEN [stop EXCEPT !.raised = TRUE]
        ELSE IF ~file_exists(files, mod.mod_archive_location) THEN stop
        ELSE InstallSteps(mod, env, asked, game, files)

\* ------------------------------------------------------------------------
\* mod_installer.uninstall_mod and mod_installer.update_mod
\* ------------------------------------------------------------------------
\* uninstall_mod(mod)
uninstall_mod(mod, st, files) ==
    LET asked == AskGame(mod, st)
        game == Get(asked.reply, "_on_request_get_game_by_id", NoneRow)
        stop == [ret |-> FALSE, raised |-> FALSE, mod |-> mod, st |-> asked.st,
                 files |-> files, events |-> asked.events, game |-> game]
        unlinked == remove_symlink(files, mod.mod_install_location)
    IN  IF game = NoneRow THEN stop
        ELSE IF ~file_exists(files, mod.mod_install_location) THEN stop
        ELSE IF unlinked.raised THEN stop
        ELSE The({ [ret |-> TRUE, raised |-> FALSE, mod |-> mod, st |-> told.st,
                    files |-> file_remove(unlinked.files, mod.mod_install_location),
                    events |-> told.events, game |-> game] :
                   told \in {Emit(asked, "BROADCAST_MOD_UNINSTALLED",
                                  [game |-> game, mod |-> mod])} })

\* update_mod that goes on to install_mod whatever uninstall_mod returned
update_mod_installing_anyway(mod, env, st, files) ==
    The({ The({ [ins EXCEPT !.events = un.events \o ins.events] :
                ins \in {install_mod(mod, env, un.st, un.files)} }) :
          un \in {uninstall_mod(mod, st, files)} })

\* mod_installer.update_mod(mod): uninstall_mod, then install_mod unless the
\* former returned False
mod_installer_update_mod(mod, env, st, files) ==
    The({ IF un.raised \/ ~un.ret THEN un
          ELSE The({ [ins EXCEPT !.events = un.events \o ins.events] :
                     ins \in {install_mod(mod, env, un.st, un.files)} }) :
          un \in {uninstall_mod(mod, st, files)} })

\* ------------------------------------------------------------------------
\* The installer, as called by the mod list view
\* ------------------------------------------------------------------------
\* what the storage does with the update and the system with the files
\* during one call that installs archive: every outcome of the links; or the
\* storage refusing the update; or the extraction raising
Envs(archive) ==
    [storageOk : {TRUE}, extract : {"ok"},
     link : [ArchiveContents(archive) -> {"link", "copy", "none"}]]
    \cup [storageOk : {FALSE}, extract : {"ok"},
          link : [ArchiveContents(archive) -> {"link"}]]
    \cup [storageOk : {TRUE}, extract : {"raises", "partial"},
          link : [ArchiveContents(archive) -> {"link"}]]

\* the environment in which nothing fails
Fair(archive) ==
    [storageOk |-> TRUE, extract |-> "ok",
     link |-> [r \in ArchiveContents(archive) |-> "link"]]

\* the calls made for a stored row, each a record and what the storage and
\* the system do during it.  The record is the row with the directory the
\* user selected (None when the dialog is cancelled); or the row naming a game
\* the storage does not hold; or the row as an update that named
\* mod_archive_location without path has left it
Calls(row) ==
    LET archive == row.mod_archive_location
        selected == [row EXCEPT !.symlink_target = "/game/Data"]
        cancelled == [row EXCEPT !.symlink_target = None]
    IN  {[mod |-> selected, env |-> env] : env \in Envs(archive)}
        \cup {[mod |-> cancelled, env |-> env] :
                env \in {e \in Envs(archive) :
                           e.storageOk /\ \A r \in DOMAIN e.link : e.link[r] = "link"}}
        \cup {[mod |-> [selected EXCEPT !.game_id = 2], env |-> Fair(archive)],
              [mod |-> [selected EXCEPT !.mod_archive_location = None],
               env |-> Fair(archive)]}

\* the records uninstall_mod is called with for a stored row
Records(row) ==
    {[row EXCEPT !.symlink_target = "/game/Data", !.game_id = g] : g \in {1, 2}}

\* mods.insert_mod: the row stored for a new mod
StoredMod(id, code, game_code, game_id, name, archive) ==
    [id |-> id, code |-> code, game_code |-> game_code, game_id |-> game_id,
     installed |-> FALSE, mod_archive_location |-> archive,
     mod_install_location |-> Join(Join(MOD_INSTALLED_PATH, game_code), code),
     name |-> name, nexus_id |-> "", path |-> "", registered_at |-> "now",
     symlink_target |-> "", symlinks |-> json_dumps(EmptyMap), version |-> ""]

\* the storage the installer works against: one game, two mods of it
InstallDb ==
    [games |-> InitDb.games,
     mods |-> << StoredMod(1, "m-1", "g-1", 1, "Alpha", "/downloads/alpha.zip"),
                 StoredMod(2, "m-2", "g-1", 1, "Beta", "/downloads/beta.zip") >>]

\* the effect of a call of the installer on the variables
InstallerCall(op, mod, env, out) ==
    /\ installCalls < MaxInstalls
    /\ SUBSCRIPTIONS' = out.st.subs
    /\ REGISTRATION_IDS' = out.st.regIds
    /\ database' = out.st.db
    /\ fs' = out.files
    /\ last' = [NoCall EXCEPT !.op = op, !.ret = out.ret, !.raised = out.raised,
                   !.events = out.events, !.mod = mod, !.record = out.mod,
                   !.env = env, !.fsBefore = fs, !.dbBefore = database,
                   !.game = out.game, !.before = SUBSCRIPTIONS,
                   !.beforeIds = REGISTRATION_IDS]
    /\ installCalls' = installCalls + 1
    /\ UNCHANGED <<uuidCount, regCalls, held, issued, subscribeCalls, storageCalls, loop>>

\* mod_list_view._on_install_click: install_mod(mod=mod)
InstallMod(mod, env) ==
    \E out \in {install_mod(mod, env, State, fs)} :
        InstallerCall("install_mod", mod, env, out)

\* mod_list_view._on_uninstall_click: uninstall_mod(mod=mod)
UninstallMod(mod) ==
    \E out \in {uninstall_mod(mod, State, fs)} :
        InstallerCall("uninstall_mod", mod, NoneRow, out)

\* mod_list_view._on_update_click: update_mod(mod=mod)
UpdateMod(mod, env) ==
    \E out \in {mod_installer_update_mod(mod, env, State, fs)} :
        InstallerCall("update_mod", mod, env, out)

\* the install location of the second mod, where a regular file may lie
StaleFile == InstallDb.mods[2].mod_install_location

InitInstall ==
    /\ SUBSCRIPTIONS = EmptyMap
    /\ uuidCount = 0
    /\ REGISTRATION_IDS = <<>>
    /\ regCalls = 0
    /\ held = {}
    /\ issued = <<>>
    /\ subscribeCalls = 0
    /\ installCalls = 0
    /\ storageCalls = 0
    /\ loop = NoLoop
    /\ \E installed \in BOOLEAN :
          database = [InstallDb EXCEPT !.mods[1].installed = installed,
                                       !.mods[2].installed = installed]
    /\ \E archives \in {{"/downloads/alpha.zip"},
                        {"/downloads/alpha.zip", "/downloads/beta.zip"}},
          plain \in {{}, {StaleFile}} :
           fs = [InitFs EXCEPT !.archives = archives, !.plain = plain]
    /\ last = NoCall

\* the service subscribes, and unsubscribes, before the installer is used
NextInstall ==
    \/ installCalls = 0 /\ SubscribeToEvents
    \/ installCalls = 0 /\ UnsubscribeFromEvents
    \/ \E i \in DOMAIN database.mods : \E call \in Calls(database.mods[i]) :
          InstallMod(call.mod, call.env)
    \/ \E i \in DOMAIN database.mods : \E mod \in Records(database.mods[i]) :
          UninstallMod(mod)
    \/ \E i \in DOMAIN database.mods : \E call \in Calls(database.mods[i]) :
          UpdateMod(call.mod, call.env)

SpecInstall == InitInstall /\ [][NextInstall]_vars

\* ------------------------------------------------------------------------
\* Storage calls: inserting, updating and searching games and mods
\* ------------------------------------------------------------------------
\* storage calls made from one start
MaxStorageCalls == 3

\* constants.MOD_ARCHIVES_PATH
MOD_ARCHIVES_PATH == "/mods/archives"

\* uuid4().hex: the token of the n-th value drawn
hex(n) == "u-" \o ToString(n)

\* datetime.now().isoformat()
isoformat == "now"

\* name.replace(" ", "_").lower()
Lowered(name) ==
    CASE name = "Skyrim" -> "skyrim"
      [] name = "Dark Souls" -> "dark_souls"
      [] OTHER -> name

\* sqlite.get_sqlite_column: the description of a column
get_sqlite_column(name, unique) == [name |-> name, unique |-> unique]

\* sqlite.get_sqlite_table: the name of a table with its columns
get_sqlite_table(columns, name) == [name |-> name, columns |-> columns]

\* the columns of the games table, in the order tables.py lists them
GameColumnNames ==
    <<"id", "code", "last_loaded_at", "mod_archive_location", "mod_install_location",
      "name", "nexus_id", "path", "registered_at">>

\* tables.GAMES_TABLE: column name -> column
GAMES_TABLE ==
    [c \in Range(GameColumnNames) |-> get_sqlite_column(c, c \in {"id", "code", "name", "path"})]

\* the columns of the mods table, in the order tables.py lists them
ModColumnNames ==
    <<"id", "code", "game_code", "game_id", "installed", "mod_archive_location",
      "mod_install_location", "name", "nexus_id", "path", "registered_at",
      "symlink_target", "symlinks", "version">>

\* a mods table whose name column is not UNIQUE
MODS_TABLE_name_not_unique ==
    [c \in Range(ModColumnNames) |-> get_sqlite_column(c, c \in {"id", "code"})]

\* tables.MODS_TABLE: column name -> column
MODS_TABLE ==
    [c \in Range(ModColumnNames) |-> get_sqlite_column(c, c \in {"id", "code", "name"})]

\* table.values(): the columns in the order of their names
Values(table, names) == [i \in DOMAIN names |-> table[names[i]]]

\* sqlite.create_insert_sql_string: INSERT INTO table['name'] (the names of
\* table['columns']) VALUES (one ? per column); no column when the mapping
\* has no entry 'columns'
create_insert_sql_string(table) ==
    [into |-> table["name"], columns |-> Get(table, "columns", <<>>)]

\* sqlite.insert: runs the statement and returns the new rowid, or None when
\* it raises: the storage fails, the statement names no column, the values
\* are not as many as the columns, or a UNIQUE column would repeat
insert(db, storageOk, query, params) ==
    LET n == Len(query.columns)
        Column(i) == query.columns[i].name
        row == [c \in {Column(i) : i \in 1..n} |-> params[CHOOSE i \in 1..n : Column(i) = c]]
        repeats == \E r \in DOMAIN db[query.into], i \in 1..n :
                      query.columns[i].unique /\ db[query.into][r][Column(i)] = params[i]
    IN  IF storageOk /\ n > 0 /\ n = Len(params) /\ ~repeats
        THEN [db |-> [db EXCEPT ![query.into] = Append(@, row)], failed |-> FALSE,
              lastrowid |-> row.id]
        ELSE [db |-> db, failed |-> TRUE, lastrowid |-> 0]

\* games.insert_game: the INSERT built from GAMES_TABLE with eight values
insert_game(db, storageOk, code, name, path) ==
    insert(db, storageOk, create_insert_sql_string(GAMES_TABLE),
           <<code, isoformat, Join(MOD_ARCHIVES_PATH, code), Join(MOD_INSTALLED_PATH, code),
             name, Lowered(name), as_posix(path), isoformat>>)

\* service._on_request_insert_game: the stored record, or None
request_insert_game(db, storageOk, code, name, path) ==
    LET done == insert_game(db, storageOk, code, name, path)
    IN  [db |-> done.db,
         ret |-> IF done.failed THEN NoneRow ELSE get_game_by_id(done.db, done.lastrowid)]

\* mods.get_all_mods: every row, or [] when the storage fails
get_all_mods(db, storageOk) == IF storageOk THEN db.mods ELSE <<>>

\* mods.insert_mod: the INSERT built from the mods table with fourteen values
insert_mod(db, storageOk, code, game_code, game_id, name, path) ==
    insert(db, storageOk,
           create_insert_sql_string(get_sqlite_table(Values(MODS_TABLE, ModColumnNames), "mods")),
           <<Len(get_all_mods(db, storageOk)) + 1, code, game_code, game_id, FALSE,
             as_posix(path), Join(Join(MOD_INSTALLED_PATH, game_code), code), name,
             "", "", isoformat, "", json_dumps(EmptyMap), "">>)

\* service._on_request_insert_mod: the stored record, or None
request_insert_mod(db, storageOk, code, game_code, game_id, name, path) ==
    LET done == insert_mod(db, storageOk, code, game_code, game_id, name, path)
    IN  [db |-> done.db,
         ret |-> IF done.failed THEN NoneRow ELSE get_mod_by_id(done.db, done.lastrowid)]

\* the arguments of a call that are not None
Given(kwargs) == {k \in DOMAIN kwargs \ {"id"} : ~(k \in TextArgs /\ kwargs[k] = None)}

\* games.update_game, lines 439-491: the column -> value mapping it builds
GameUpdateValues(kwargs) ==
    LET given == Given(kwargs)
        keys == (given \cap {"last_loaded_at", "name", "nexus_id", "path", "registered_at"})
                  \cup (IF "code" \in given THEN {"uuid"} ELSE {})
                  \cup (IF given \cap {"mod_archive_location", "mod_install_location"} /= {}
                        THEN {"mod_folder_location"} ELSE {})
    IN  [k \in keys |->
            CASE k = "uuid" -> kwargs.code
              [] k = "mod_folder_location" ->
                    IF "mod_install_location" \in given
                    THEN as_posix(kwargs.mod_install_location)
                    ELSE as_posix(kwargs.mod_archive_location)
              [] k = "path" -> as_posix(kwargs.path)
              [] OTHER -> kwargs[k]]

\* UPDATE games SET ... WHERE id = ?: the rows afterwards; the statement
\* fails, changing nothing, when the storage fails, when it names a column
\* the table has not, or when a UNIQUE column would repeat
SqlUpdateGames(db, storageOk, id, values) ==
    LET new == [i \in DOMAIN db.games |->
                  IF db.games[i].id = id
                  THEN [c \in DOMAIN db.games[i] |->
                          IF c \in DOMAIN values THEN values[c] ELSE db.games[i][c]]
                  ELSE db.games[i]]
        unique == \A i, j \in DOMAIN new :
                    i /= j => /\ new[i].name /= new[j].name
                              /\ new[i].code /= new[j].code
                              /\ new[i].path /= new[j].path
    IN  IF storageOk /\ DOMAIN values \subseteq Range(GameColumnNames) /\ unique
        THEN [db EXCEPT !.games = new]
        ELSE db

\* an update_game that runs the UPDATE whatever the row and the fields are
update_game_without_checks(db, storageOk, kwargs) ==
    [db |-> SqlUpdateGames(db, storageOk, kwargs.id, GameUpdateValues(kwargs)),
     ret |-> TRUE]

\* games.update_game: False when the row is missing or nothing is supplied;
\* otherwise runs the UPDATE and returns True
update_game(db, storageOk, kwargs) ==
    IF ~(storageOk /\ get_game_by_id(db, kwargs.id) /= NoneRow)
    THEN [db |-> db, ret |-> FALSE]
    ELSE IF DOMAIN GameUpdateValues(kwargs) = {}
    THEN [db |-> db, ret |-> FALSE]
    ELSE [db |-> SqlUpdateGames(db, storageOk, kwargs.id, GameUpdateValues(kwargs)),
          ret |-> TRUE]

\* games.search_games: SELECT * FROM games WHERE id = ?, whatever else is
\* passed; no row equals a missing id
search_games(db, storageOk, kwargs) ==
    IF storageOk /\ "id" \in DOMAIN kwargs
    THEN SelectSeq(db.games, LAMBDA row : row.id = kwargs.id)
    ELSE <<>>

\* `if value:` on an argument of search_mods
Truthy(k, value) ==
    CASE k \in TextArgs -> value /= None /\ value /= ""
      [] k = "installed" -> value
      [] k = "symlinks" -> DOMAIN value /= {}
      [] OTHER -> value /= 0

\* mods.search_mods: one `column = ?` per argument that is truthy; a mapping
\* cannot be bound to a statement, so a symlinks filter raises and gives []
search_mods(db, storageOk, kwargs) ==
    LET filters == {k \in DOMAIN kwargs : Truthy(k, kwargs[k])}
    IN  IF storageOk /\ "symlinks" \notin filters
        THEN SelectSeq(db.mods, LAMBDA row : \A k \in filters : row[k] = kwargs[k])
        ELSE <<>>

\* a row of the games table
StoredGame(id, code, name, path) ==
    [id |-> id, code |-> code, last_loaded_at |-> isoformat,
     mod_archive_location |-> Join(MOD_ARCHIVES_PATH, code),
     mod_install_location |-> Join(MOD_INSTALLED_PATH, code),
     name |-> name, nexus_id |-> "", path |-> path, registered_at |-> isoformat]

\* a database file that holds two games, and possibly a mod
StorageDb ==
    [games |-> << StoredGame(1, "g-1", "Skyrim", "/games/skyrim"),
                  StoredGame(2, "g-2", "Doom", "/games/doom") >>,
     mods |-> << StoredMod(1, "m-1", "g-1", 1, "Alpha", "/downloads/alpha.zip") >>]

\* sqlite.fetch_one for SELECT * FROM <table> WHERE <column> = ?: the first
\* matching row; None when no row matches, when the storage fails or when the
\* table has no such column (the exception is logged and swallowed)
fetch_one(rows, storageOk, columns, column, value) ==
    IF ~storageOk \/ column \notin columns
    THEN NoneRow
    ELSE LET hits == {i \in DOMAIN rows : rows[i][column] = value}
         IN  IF hits = {} THEN NoneRow
             ELSE rows[CHOOSE i \in hits : \A j \in hits : i <= j]

\* games.get_game_by_code: SELECT * FROM games WHERE uuid = ?
get_game_by_code(db, storageOk, game_code) ==
    fetch_one(db.games, storageOk, Range(GameColumnNames), "uuid", game_code)

\* mods.get_mod_by_code: SELECT * FROM mods WHERE uuid = ?
get_mod_by_code(db, storageOk, mod_code) ==
    fetch_one(db.mods, storageOk, Range(ModColumnNames), "uuid", mod_code)

\* the effect of a call of a storage function on the variables
StorageCall(op, kwargs, storageOk, drawn, out) ==
    /\ storageCalls < MaxStorageCalls
    /\ storageCalls' = storageCalls + 1
    /\ uuidCount' = uuidCount + drawn
    /\ database' = out.db
    /\ last' = [NoCall EXCEPT !.op = op, !.kwargs = kwargs, !.ret = out.ret,
                   !.dbBefore = database, !.env = [storageOk |-> storageOk]]
    /\ UNCHANGED <<SUBSCRIPTIONS, REGISTRATION_IDS, regCalls, held, issued, subscribeCalls,
                   fs, installCalls, loop>>

\* REQUEST_INSERT_GAME
InsertGame(kwargs, storageOk) ==
    \E out \in {request_insert_game(database, storageOk, hex(uuid4(uuidCount + 1)),
                                    kwargs.name, kwargs.path)} :
        StorageCall("insert_game", kwargs, storageOk, 1, out)

\* REQUEST_INSERT_MOD
InsertMod(kwargs, storageOk) ==
    \E out \in {request_insert_mod(database, storageOk, hex(uuid4(uuidCount + 1)),
                                   kwargs.game_code, kwargs.game_id, kwargs.name,
                                   kwargs.path)} :
        StorageCall("insert_mod", kwargs, storageOk, 1, out)

\* update_game(id=..., ...)
UpdateGame(kwargs, storageOk) ==
    \E out \in {update_game(database, storageOk, kwargs)} :
        StorageCall("update_game", kwargs, storageOk, 0, out)

\* update_mod(id=..., ...)
UpdateModRow(kwargs, storageOk) ==
    \E out \in {update_mod(database, storageOk, kwargs)} :
        StorageCall("update_mod", kwargs, storageOk, 0, out)

\* search_games(...)
SearchGames(kwargs, storageOk) ==
    \E rows \in {search_games(database, storageOk, kwargs)} :
        StorageCall("search_games", kwargs, storageOk, 0, [db |-> database, ret |-> rows])

\* search_mods(...)
SearchMods(kwargs, storageOk) ==
    \E rows \in {search_mods(database, storageOk, kwargs)} :
        StorageCall("search_mods", kwargs, storageOk, 0, [db |-> database, ret |-> rows])

\* REQUEST_GET_GAME_BY_CODE: service._on_request_get_game_by_code
GetGameByCode(game_code, storageOk) ==
    \E row \in {get_game_by_code(database, storageOk, game_code)} :
        StorageCall("get_game_by_code", [game_code |-> game_code], storageOk, 0,
                    [db |-> database, ret |-> row])

\* REQUEST_GET_MOD_BY_CODE: service._on_request_get_mod_by_code
GetModByCode(mod_code, storageOk) ==
    \E row \in {get_mod_by_code(database, storageOk, mod_code)} :
        StorageCall("get_mod_by_code", [mod_code |-> mod_code], storageOk, 0,
                    [db |-> database, ret |-> row])

\* the codes a request asks for: those of the stored records, one an update
\* assigns, one an insert draws, and one no record has
Codes == {"g-1", "g-2", "m-1", "m-9", hex(1), "nope"}

\* the games inserted
GameInserts ==
    {[name |-> "Morrowind", path |-> "/games/morrowind"],
     [name |-> "Dark Souls", path |-> "/mods/x/"],
     [name |-> "Skyrim", path |-> "/games/skyrim"]}

\* the mods inserted
ModInserts ==
    {[game_code |-> "g-1", game_id |-> 1, name |-> name, path |-> "/downloads/new.zip"] :
        name \in {"Alpha", "Beta"}}

\* the fields an update of a game supplies
GameFields ==
    {EmptyMap,
     [name |-> "Doom"],
     [name |-> "Morrowind", nexus_id |-> "110"],
     [path |-> "/mods/x/"],
     [code |-> "g-9"],
     [mod_archive_location |-> "/mods/x/"]}

\* the fields an update of a mod supplies
ModFields ==
    {EmptyMap,
     [name |-> "Alpha"],
     [installed |-> TRUE],
     [code |-> "m-9"],
     [mod_archive_location |-> "/downloads/new.zip"],
     [version |-> "2.0", path |-> "/mods/x/"],
     [symlink_target |-> "/game/Data", symlinks |-> [a |-> "b"]]}

\* the filters a search of games passes
GameFilters ==
    {EmptyMap, [id |-> 1], [name |-> "Doom"], [id |-> 1, name |-> "Doom"], [id |-> 3]}

\* the filters a search of mods passes
ModFilters ==
    {EmptyMap, [name |-> "Alpha"], [installed |-> FALSE], [installed |-> TRUE],
     [game_id |-> 1, name |-> "Beta"], [nexus_id |-> ""], [symlinks |-> [a |-> "b"]]}

\* the call with the id and the fields it supplies
WithId(id, fields) == [k \in DOMAIN fields \cup {"id"} |-> IF k = "id" THEN id ELSE fields[k]]

InitStorage ==
    /\ SUBSCRIPTIONS = EmptyMap
    /\ uuidCount = 0
    /\ REGISTRATION_IDS = <<>>
    /\ regCalls = 0
    /\ held = {}
    /\ issued = <<>>
    /\ subscribeCalls = 0
    /\ installCalls = 0
    /\ storageCalls = 0
    /\ loop = NoLoop
    /\ \E mods \in {<<>>, StorageDb.mods} : database = [StorageDb EXCEPT !.mods = mods]
    /\ fs = InitFs
    /\ last = NoCall

NextStorage ==
    \/ \E kwargs \in GameInserts, storageOk \in BOOLEAN : InsertGame(kwargs, storageOk)
    \/ \E kwargs \in ModInserts, storageOk \in BOOLEAN : InsertMod(kwargs, storageOk)
    \/ \E id \in 1..3, fields \in GameFields, storageOk \in BOOLEAN :
          UpdateGame(WithId(id, fields), storageOk)
    \/ \E id \in 1..3, fields \in ModFields, storageOk \in BOOLEAN :
          UpdateModRow(WithId(id, fields), storageOk)
    \/ \E kwargs \in GameFilters, storageOk \in BOOLEAN : SearchGames(kwargs, storageOk)
    \/ \E kwargs \in ModFilters, storageOk \in BOOLEAN : SearchMods(kwargs, storageOk)
    \/ \E game_code \in Codes, storageOk \in BOOLEAN : GetGameByCode(game_code, storageOk)
    \/ \E mod_code \in Codes, storageOk \in BOOLEAN : GetModByCode(mod_code, storageOk)

SpecStorage == InitStorage /\ [][NextStorage]_vars

\* ------------------------------------------------------------------------
\* The for loop of dispatch, one iteration at a time
\* ------------------------------------------------------------------------
\* The loop of lines 64-83 walks the list SUBSCRIPTIONS[event][namespace]
\* itself, so what a callback appends to that list comes under the loop.
\* Whether the loop ends depends on the subscriptions that lie ahead of its
\* position only: `loop.ahead` is that part of the list (the callbacks, in
\* order), `loop.result` the callback names that have an entry in `result`,
\* `loop.drawn` the uuid4 values register has drawn during the dispatch,
\* counted modulo 2 (the list, and the count, may grow without bound).

\* subscriptions in the bucket when a dispatch starts
MaxBucket == 3

\* callbacks of other components: two that register, during their call, a
\* callback for the (event, namespace) being dispatched
LoopFunctions == UserFunctions \cup {"on_subscribe", "on_resubscribe"}

\* what a call of the callback appends to the bucket being dispatched, through
\* register (lines 134-140): on_subscribe registers on_a, on_resubscribe
\* registers itself
Appended(function) ==
    CASE function = "on_subscribe" -> <<"on_a">>
      [] function = "on_resubscribe" -> <<"on_resubscribe">>
      [] OTHER -> <<>>

\* the buckets a dispatch may find
Buckets == UNION {[1..n -> LoopFunctions] : n \in 0..MaxBucket}

\* dispatch(event, namespace) reaches its for loop (line 64)
StartLoop(bucket) ==
    /\ ~loop.running
    /\ loop' = [running |-> TRUE, ahead |-> bucket, result |-> {}, drawn |-> 0]
    /\ UNCHANGED <<SUBSCRIPTIONS, uuidCount, REGISTRATION_IDS, regCalls, held, issued,
                   subscribeCalls, database, fs, installCalls, storageCalls, last>>

\* one iteration (lines 64-83): the next subscription's callback is called;
\* it returns, or raises and is caught
Iterate ==
    /\ loop.running
    /\ loop.ahead /= <<>>
    /\ LET function == Head(loop.ahead)
       IN  loop' = [loop EXCEPT
                       !.ahead = Tail(loop.ahead) \o Appended(function),
                       !.result = IF function = "on_raise" THEN @
                                 ELSE @ \cup {FunctionName(function)},
                       !.drawn = (@ + Len(Appended(function))) % 2]
    /\ UNCHANGED <<SUBSCRIPTIONS, uuidCount, REGISTRATION_IDS, regCalls, held, issued,
                   subscribeCalls, database, fs, installCalls, storageCalls, last>>

\* the list is exhausted: the non-persistent subscriptions are unregistered
\* and dispatch returns (lines 86-91)
Return ==
    /\ loop.running
    /\ loop.ahead = <<>>
    /\ loop' = [loop EXCEPT !.running = FALSE]
    /\ UNCHANGED <<SUBSCRIPTIONS, uuidCount, REGISTRATION_IDS, regCalls, held, issued,
                   subscribeCalls, database, fs, installCalls, storageCalls, last>>

NextLoop ==
    \/ \E bucket \in Buckets : StartLoop(bucket)
    \/ Iterate
    \/ Return

\* the interpreter runs the loop on as long as each callback returns
SpecLoop == Init /\ [][NextLoop]_vars /\ WF_vars(Iterate) /\ WF_vars(Return)

\* ------------------------------------------------------------------------
\* Properties of the dispatcher
\* ------------------------------------------------------------------------
\* the bucket the last call was about, as it was when the call was made
BucketBefore == Bucket(last.before, last.event, last.namespace)

IdsOf(list) == [i \in DOMAIN list |-> list[i].registration_id]

Dispatched == last.op = "dispatch"

\* C1: a dispatch on (event, namespace) invokes the callbacks of the
\* subscriptions registered there, all of them, in the order in which they
\* were registered.
C1_DispatchInRegistrationOrder ==
    Dispatched => last.calls = IdsOf(BucketBefore)

\* C2: a callback that raises contributes no entry to the result mapping and
\* does not stop the fan-out: every subscriber registered after it in the same
\* bucket is still invoked.
C2_RaiseIsIsolated ==
    Dispatched =>
        \A i \in DOMAIN BucketBefore :
            BucketBefore[i].registration_id \in Range(last.raises) =>
                /\ \/ FunctionName(BucketBefore[i].function) \notin DOMAIN last.result
                   \/ \E j \in DOMAIN BucketBefore :
                        /\ BucketBefore[j].function = BucketBefore[i].function
                        /\ BucketBefore[j].registration_id \in Range(last.calls)
                        /\ BucketBefore[j].registration_id \notin Range(last.raises)
                /\ \A j \in DOMAIN BucketBefore :
                        j > i => BucketBefore[j].registration_id \in Range(last.calls)

\* C3: every non-persistent subscription registered for (event, namespace)
\* before dispatch(event, namespace) is absent from the table afterwards.
C3_NonPersistentRemoved ==
    Dispatched =>
        \A i \in DOMAIN BucketBefore :
            ~BucketBefore[i].persistent =>
                BucketBefore[i].registration_id \notin AllIds(SUBSCRIPTIONS)

\* unregister was called with this id during the last call
UnregisterCalledWith(id) ==
    \/ last.op = "unregister" /\ last.id = id
    \/ /\ id \in Range(last.beforeIds)
       /\ \/ last.op = "unsubscribe_from_events"
          \/ /\ Dispatched
             /\ \E i \in DOMAIN BucketBefore :
                    /\ BucketBefore[i].function = "_on_broadcast_application_shutdown"
                    /\ BucketBefore[i].registration_id \in Range(last.calls)

\* C4: a persistent subscription stays in the table across every call, and is
\* invoked by every dispatch on its (event, namespace), until unregister is
\* called with its registration id.
C4_PersistentSurvives ==
    /\ \A s \in AllSubscriptions(last.before) :
            (s.persistent /\ ~UnregisterCalledWith(s.registration_id)) =>
                s \in AllSubscriptions(SUBSCRIPTIONS)
    /\ Dispatched =>
            \A i \in DOMAIN BucketBefore :
                (BucketBefore[i].persistent
                    /\ ~UnregisterCalledWith(BucketBefore[i].registration_id)) =>
                        BucketBefore[i].registration_id \in Range(last.calls)

\* C5: dispatch on an (event, namespace) without subscriptions returns an
\* empty mapping, invokes nothing and leaves the table unchanged.
C5_EmptyDispatchIsNoOp ==
    (Dispatched /\ BucketBefore = <<>>) =>
        /\ last.result = EmptyMap
        /\ last.calls = <<>>
        /\ SUBSCRIPTIONS = last.before
        /\ REGISTRATION_IDS = last.beforeIds

\* C5 witness: a dispatch on a bucket whose subscriptions were all
\* unregistered, and one on an event nothing was registered for
C5_Witness ==
    /\ Dispatched
    /\ last.event \in DOMAIN last.before
    /\ last.namespace \in DOMAIN last.before[last.event]
    /\ last.before[last.event][last.namespace] = <<>>
    /\ AllSubscriptions(last.before) /= {}

\* C6: unregister with an id that is not in the table returns false and leaves
\* every bucket as it was.
C6_UnknownUnregister ==
    (last.op = "unregister" /\ last.id \notin AllIds(last.before)) =>
        /\ last.ret = FALSE
        /\ SUBSCRIPTIONS = last.before

\* C6 witness: an unregister of an id that was unregistered before, with
\* other subscriptions in the table
C6_Witness ==
    /\ last.op = "unregister"
    /\ last.id \in held
    /\ last.id \notin AllIds(last.before)
    /\ AllSubscriptions(last.before) /= {}

\* C7: register returns an id it never returned before and appends one
\* subscription; the same callback registered twice for one (event,
\* namespace) gives two subscriptions that one dispatch both invokes and that
\* are unregistered one at a time.
C7_RegisterIndependent ==
    /\ \A i, j \in DOMAIN issued : i /= j => issued[i] /= issued[j]
    /\ last.op = "register" =>
            /\ Len(Bucket(SUBSCRIPTIONS, last.event, last.namespace)) = Len(BucketBefore) + 1
            /\ IdsOf(Bucket(SUBSCRIPTIONS, last.event, last.namespace))
                    = Append(IdsOf(BucketBefore), last.ret)
    /\ Dispatched =>
            \A i, j \in DOMAIN BucketBefore :
                (i /= j /\ BucketBefore[i].function = BucketBefore[j].function) =>
                    /\ BucketBefore[i].registration_id \in Range(last.calls)
                    /\ BucketBefore[j].registration_id \in Range(last.calls)
    /\ (last.op = "unregister" /\ last.ret = TRUE) =>
            AllIds(SUBSCRIPTIONS) = AllIds(last.before) \ {last.id}

\* the service's request events whose handlers are modelled
RequestEvents == {"REQUEST_GET_GAME_BY_ID", "REQUEST_GET_MOD_BY_ID", "REQUEST_UPDATE_MOD"}

NoServiceSubscription ==
    /\ \A s \in AllSubscriptions(SUBSCRIPTIONS) : s.function \notin ServiceFunctions
    /\ \A event \in RequestEvents :
            dispatch(event, "global", Payload(event), State).result = EmptyMap

\* C8: once the service has subscribed, a dispatch of
\* BROADCAST_APPLICATION_SHUTDOWN in "global" leaves none of the service's
\* subscriptions in the table and its id list empty, and from then on every
\* request dispatch returns an empty mapping.
C8_ShutdownUnsubscribesService ==
    /\ (/\ Dispatched
        /\ last.event = "BROADCAST_APPLICATION_SHUTDOWN"
        /\ last.namespace = "global"
        /\ last.beforeIds /= <<>>) =>
            REGISTRATION_IDS = <<>> /\ NoServiceSubscription
    /\ REGISTRATION_IDS = <<>> => NoServiceSubscription
    /\ (Dispatched /\ last.event \in ServiceEvents \ {"BROADCAST_APPLICATION_SHUTDOWN"}
            /\ last.beforeIds = <<>>) => last.result = EmptyMap

\* C8 witness: the shutdown dispatched after two subscribe_to_events calls,
\* with another component's callback in the same bucket
C8_Witness ==
    /\ Dispatched
    /\ last.event = "BROADCAST_APPLICATION_SHUTDOWN"
    /\ last.namespace = "global"
    /\ Len(last.beforeIds) = 2 * Len(get_subscriptions)
    /\ \E i \in DOMAIN BucketBefore : BucketBefore[i].function \in UserFunctions

\* ------------------------------------------------------------------------
\* Properties of the installer
\* ------------------------------------------------------------------------
Installed == last.op = "install_mod"

\* the archive of the record was on disk when install_mod was called
ArchiveFound == file_exists(last.fsBefore, last.mod.mod_archive_location)

\* the record names an archive
ArchiveRecorded == last.mod.mod_archive_location /= None

\* the service held a subscription of its get-game-by-id handler, and the
\* storage a game with the record's game id, when install_mod was called
GameResolved ==
    /\ \E s \in Range(Bucket(last.before, "REQUEST_GET_GAME_BY_ID", "global")) :
           s.function = "_on_request_get_game_by_id"
    /\ get_game_by_id(last.dbBefore, last.mod.game_id) /= NoneRow

EventsDispatched == Range(last.events)

\* C9: install(mod) when the mod's archive does not exist on disk, or when the
\* owning Game cannot be resolved, returns false, writes nothing to the file
\* system and dispatches neither BROADCAST_MOD_INSTALL_SUCCESS nor
\* REQUEST_UPDATE_MOD.
C9_InstallRefused ==
    (Installed /\ ((ArchiveRecorded /\ ~ArchiveFound) \/ ~GameResolved)) =>
        /\ ~last.raised
        /\ last.ret = FALSE
        /\ fs = last.fsBefore
        /\ "BROADCAST_MOD_INSTALL_SUCCESS" \notin EventsDispatched
        /\ "REQUEST_UPDATE_MOD" \notin EventsDispatched

\* C9 witness: an install of a mod whose archive is not on disk, the game
\* being resolved, after another mod was staged and linked
C9_Witness ==
    /\ Installed
    /\ ~ArchiveFound
    /\ GameResolved
    /\ last.fsBefore.staged /= {}
    /\ DOMAIN last.fsBefore.links /= {}
    /\ last.ret = FALSE

\* the files of the record's archive
StagedFiles ==
    {Join(last.mod.mod_install_location, r) :
        r \in ArchiveContents(last.mod.mod_archive_location)}

ExtractionFailed == last.env.extract /= "ok"

\* some file of the archive has nothing at its place below the target
LinkingFailed ==
    /\ ~ExtractionFailed
    /\ StagedFiles /= {}
    /\ \/ last.mod.symlink_target = None
       \/ \E r \in ArchiveContents(last.mod.mod_archive_location) :
              Join(last.mod.symlink_target, r) \notin DOMAIN fs.links

\* the storage refused the update of the record
PersistingFailed == ~ExtractionFailed /\ ~last.env.storageOk

\* C10: an install call that resolves its Game and finds its archive
\* dispatches exactly one of BROADCAST_MOD_INSTALL_SUCCESS and
\* BROADCAST_MOD_INSTALL_FAILED: the failed event, and false, when
\* extraction, linking or persisting the record fails, the success event,
\* and true, otherwise.
C10_OneOutcomeEvent ==
    (Installed /\ ArchiveFound /\ GameResolved) =>
        LET failed == ExtractionFailed \/ LinkingFailed \/ PersistingFailed
            success == "BROADCAST_MOD_INSTALL_SUCCESS" \in EventsDispatched
            failure == "BROADCAST_MOD_INSTALL_FAILED" \in EventsDispatched
        IN  /\ success /= failure
            /\ failed => (failure /\ last.ret = FALSE)
            /\ ~failed => (success /\ last.ret = TRUE)

\* the row stored for the record of the last call
StoredRecord == get_mod_by_id(database, last.mod.id)

\* C11: whenever install(mod) returns true, the stored record of the mod
\* holds the symlinks map that the install accumulated and the symlink target
\* of the record that was installed.
C11_InstallPersisted ==
    (Installed /\ ~last.raised /\ last.ret = TRUE) =>
        /\ StoredRecord.symlinks = json_dumps(last.record.symlinks)
        /\ StoredRecord.symlink_target = last.mod.symlink_target

\* C12: a successful install(mod) of a mod with at least one file, followed
\* by uninstall(mod) on the same record, leaves none of the links or copies
\* that the install created under the symlink target, and the uninstall
\* returns true.
C12_InstallThenUninstall ==
    (Installed /\ ~last.raised /\ last.ret = TRUE /\ DOMAIN last.record.symlinks /= {}) =>
        LET un == uninstall_mod(last.record, State, fs)
        IN  /\ un.ret = TRUE
            /\ \A f \in DOMAIN last.record.symlinks :
                    last.record.symlinks[f] \notin DOMAIN un.files.links

\* the state in which the last call was made
StateBefore ==
    [subs |-> last.before, regIds |-> last.beforeIds, db |-> last.dbBefore,
     storageOk |-> TRUE]

Updated == last.op = "update_mod"

\* uninstall(mod) made in place of the last call
UninstallStep == uninstall_mod(last.mod, StateBefore, last.fsBefore)

\* install(mod) made right after UninstallStep
InstallStep == install_mod(last.mod, last.env, UninstallStep.st, UninstallStep.files)

\* position of the first occurrence of event in the events dispatched
Position(event) ==
    CHOOSE i \in DOMAIN last.events :
        last.events[i] = event /\ \A j \in 1..(i - 1) : last.events[j] /= event

\* the last call left what call would have left
SameOutcome(call) ==
    /\ fs = call.files
    /\ database = call.st.db
    /\ last.raised = call.raised
    /\ last.ret = call.ret

\* C13: update(mod) is observably equivalent to uninstall(mod) immediately
\* followed by install(mod) with the same record: same files, same stored
\* record, same return value, BROADCAST_MOD_UNINSTALLED dispatched and then
\* BROADCAST_MOD_INSTALL_SUCCESS.
C13_UpdateIsUninstallThenInstall ==
    Updated =>
        /\ SameOutcome(InstallStep)
        /\ last.events = UninstallStep.events \o InstallStep.events
        /\ (~last.raised /\ last.ret = TRUE) =>
                /\ "BROADCAST_MOD_UNINSTALLED" \in EventsDispatched
                /\ "BROADCAST_MOD_INSTALL_SUCCESS" \in EventsDispatched
                /\ Position("BROADCAST_MOD_UNINSTALLED")
                        < Position("BROADCAST_MOD_INSTALL_SUCCESS")

\* C13, amended: when its uninstall step succeeds, update(mod) is equivalent
\* to uninstall(mod) followed by install(mod) with the same record, and an
\* update that returns true has dispatched BROADCAST_MOD_UNINSTALLED and then
\* BROADCAST_MOD_INSTALL_SUCCESS; when its uninstall step fails, update(mod)
\* is equivalent to that uninstall(mod) alone.
C13_UpdateWhenUninstalled ==
    Updated =>
        /\ UninstallStep.ret =>
                /\ SameOutcome(InstallStep)
                /\ last.events = UninstallStep.events \o InstallStep.events
        /\ ~UninstallStep.ret =>
                /\ SameOutcome(UninstallStep)
                /\ last.events = UninstallStep.events
        /\ (~last.raised /\ last.ret = TRUE) =>
                /\ "BROADCAST_MOD_UNINSTALLED" \in EventsDispatched
                /\ "BROADCAST_MOD_INSTALL_SUCCESS" \in EventsDispatched
                /\ Position("BROADCAST_MOD_UNINSTALLED")
                        < Position("BROADCAST_MOD_INSTALL_SUCCESS")

\* C13 witness: an update that uninstalled, then installed and linked
C13_Witness ==
    /\ Updated
    /\ ~last.raised
    /\ last.ret = TRUE
    /\ fs /= last.fsBefore
    /\ DOMAIN fs.links /= {}

\* C14: when the uninstall step of update(mod) fails, update returns false at
\* once and the install step is not started: nothing is extracted or linked
\* and neither install event is dispatched; when uninstall succeeds and
\* install then fails, update returns false and the mod is left uninstalled.
C14_UpdateStopsAtFailure ==
    Updated =>
        /\ ~UninstallStep.ret =>
                /\ ~last.raised
                /\ last.ret = FALSE
                /\ fs = last.fsBefore
                /\ database = last.dbBefore
                /\ EventsDispatched \cap {"BROADCAST_MOD_INSTALL_SUCCESS",
                                         "BROADCAST_MOD_INSTALL_FAILED",
                                         "REQUEST_UPDATE_MOD"} = {}
        /\ (UninstallStep.ret /\ (InstallStep.raised \/ ~InstallStep.ret)) =>
                /\ ~last.raised
                /\ last.ret = FALSE
                /\ "BROADCAST_MOD_UNINSTALLED" \in EventsDispatched
                /\ "BROADCAST_MOD_INSTALL_SUCCESS" \notin EventsDispatched
                /\ fs.links = last.fsBefore.links

\* C15: no exception propagates out of install, uninstall or update, for any
\* record and any failure of the dispatcher, the storage or the file system:
\* every failure is reported as the return value false.
C15_NoExceptionPropagates ==
    last.op \in {"install_mod", "uninstall_mod", "update_mod"} => ~last.raised

\* ------------------------------------------------------------------------
\* Properties of the storage
\* ------------------------------------------------------------------------
\* the storage answered the last call
StorageWorked == last.env.storageOk

\* no game stored before the last call has the name or the path passed
NewGame ==
    \A i \in DOMAIN last.dbBefore.games :
        /\ last.dbBefore.games[i].name /= last.kwargs.name
        /\ last.dbBefore.games[i].path /= last.kwargs.path

\* C16: inserting a Game whose name and path are not yet stored succeeds and
\* returns the full record; fetching by the returned id yields a record whose
\* name and path equal the inputs and whose code is a non-empty token that no
\* other stored Game has
C16_InsertGameRoundTrip ==
    (last.op = "insert_game" /\ StorageWorked /\ NewGame) =>
        /\ last.ret /= NoneRow
        /\ LET fetched == get_game_by_id(database, last.ret.id)
           IN  /\ fetched = last.ret
               /\ fetched.name = last.kwargs.name
               /\ fetched.path = last.kwargs.path
               /\ fetched.code /= ""
               /\ \A i \in DOMAIN database.games :
                     database.games[i].id /= fetched.id => database.games[i].code /= fetched.code

\* a mod stored before the last call has the name passed
NameTaken ==
    \E i \in DOMAIN last.dbBefore.mods : last.dbBefore.mods[i].name = last.kwargs.name

\* C17: when a Mod with name N is stored, inserting a second Mod with name N
\* reports None and leaves the rows of the mods table, their number and every
\* field of them, as they were; no two stored Mods ever share a name
C17_UniqueModName ==
    /\ (last.op = "insert_mod" /\ NameTaken) =>
          /\ last.ret = NoneRow
          /\ database.mods = last.dbBefore.mods
    /\ \A i, j \in DOMAIN database.mods :
          i /= j => database.mods[i].name /= database.mods[j].name

\* a working storage refused a second mod of a name that an earlier insert stored
C17_Witness ==
    /\ last.op = "insert_mod" /\ StorageWorked /\ NameTaken
    /\ last.ret = NoneRow
    /\ \E i \in DOMAIN database.mods :
          /\ database.mods[i].name = last.kwargs.name
          /\ database.mods[i].code = hex(1)

\* the last call was an update of a game or of a mod
Updating == last.op \in {"update_game", "update_mod"}

\* the row the last update names, as it was stored before the call, or None
RowBefore ==
    IF last.op = "update_game"
    THEN get_game_by_id(last.dbBefore, last.kwargs.id)
    ELSE get_mod_by_id(last.dbBefore, last.kwargs.id)

\* the fields the last call supplies
Supplied == Given(last.kwargs)

\* C18: update_game and update_mod return false and leave every stored row,
\* and the number of rows, unchanged when no record has the id passed, and
\* when the call supplies no field to change
C18_UpdateRefused ==
    (Updating /\ (RowBefore = NoneRow \/ Supplied = {})) =>
        /\ last.ret = FALSE
        /\ database = last.dbBefore

\* update_game, on a working storage, was given fields for an id that no
\* game has
C18_Witness ==
    /\ last.op = "update_game" /\ StorageWorked
    /\ RowBefore = NoneRow /\ Supplied /= {}
    /\ last.ret = FALSE

\* the row the last update names, as it is stored now, or None
RowAfter ==
    IF last.op = "update_game"
    THEN get_game_by_id(database, last.kwargs.id)
    ELSE get_mod_by_id(database, last.kwargs.id)

\* a supplied value as the storage keeps it: a path in posix form, the
\* symlinks as JSON text
Kept(field, value) ==
    IF field \in ModPathColumns THEN as_posix(value)
    ELSE IF field = "symlinks" THEN json_dumps(value)
    ELSE value

\* the row with the supplied fields set to the supplied values
WithSupplied(row) ==
    [c \in DOMAIN row |-> IF c \in Supplied THEN Kept(c, last.kwargs[c]) ELSE row[c]]

\* the rows of a table that the last update does not name
Others(rows) == SelectSeq(rows, LAMBDA row : row.id /= last.kwargs.id)

\* C19: an update of an existing Game or Mod that supplies some of the fields
\* sets exactly those fields of the record to the supplied values and leaves
\* every other field of it, and every other record, unchanged
C19_PartialUpdate ==
    (Updating /\ StorageWorked /\ RowBefore /= NoneRow /\ Supplied /= {} /\ last.ret = TRUE) =>
        /\ RowAfter = WithSupplied(RowBefore)
        /\ Others(database.games) = Others(last.dbBefore.games)
        /\ Others(database.mods) = Others(last.dbBefore.mods)
        /\ last.op = "update_game" => database.mods = last.dbBefore.mods
        /\ last.op = "update_mod" => database.games = last.dbBefore.games

\* the last call was a search
Searching == last.op \in {"search_games", "search_mods"}

\* the rows of the table searched
Searched == IF last.op = "search_games" THEN database.games ELSE database.mods

\* the row equals every filter value the last call supplies
Matches(row) == \A k \in DOMAIN last.kwargs : row[k] = Kept(k, last.kwargs[k])

\* C20: a search over Games, and a search over Mods, returns exactly the
\* stored records that equal every supplied filter value; a search that
\* supplies no filter returns all stored records
C20_SearchIsExactMatch ==
    (Searching /\ StorageWorked) =>
        /\ Range(last.ret) = {row \in Range(Searched) : Matches(row)}
        /\ DOMAIN last.kwargs = {} => last.ret = Searched

\* ------------------------------------------------------------------------
\* Properties of the fan-out
\* ------------------------------------------------------------------------
\* how many times the last dispatch invoked the subscription with this id
Times(id) == Cardinality({k \in DOMAIN last.calls : last.calls[k] = id})

\* C21: every subscription that is in the (event, namespace) bucket when a
\* dispatch starts is invoked exactly once by it, also when a callback
\* unregisters its own subscription, or one already invoked, during the
\* fan-out: none is skipped, none is invoked twice
C21_EachInvokedOnce ==
    Dispatched =>
        \A i \in DOMAIN BucketBefore : Times(BucketBefore[i].registration_id) = 1

\* C22: every dispatch call eventually returns, provided each callback
\* invocation returns, also when callbacks register for the (event,
\* namespace) being dispatched during the fan-out
C22_DispatchReturns == loop.running ~> ~loop.running

\* the subscriptions of the bucket that the last dispatch invoked and that
\* returned without raising, by their position in the bucket
Returned ==
    {i \in DOMAIN BucketBefore :
        /\ BucketBefore[i].registration_id \in Range(last.calls)
        /\ BucketBefore[i].registration_id \notin Range(last.raises)}

\* what the callback returns when the last dispatch calls it
ValueOf(function) ==
    Invoke(function, Payload(last.event),
           [subs |-> last.before, regIds |-> last.beforeIds, db |-> database,
            storageOk |-> TRUE]).value

\* C23: the result mapping of a dispatch has exactly one entry per distinct
\* callback name among the subscribers that returned without raising, holding
\* that callback's return value; when several of them share a callback name,
\* the entry holds the value returned by the one registered last
C23_ResultByCallbackName ==
    Dispatched =>
        /\ DOMAIN last.result = {FunctionName(BucketBefore[i].function) : i \in Returned}
        /\ \A i \in Returned :
              (\A j \in Returned :
                  FunctionName(BucketBefore[j].function) = FunctionName(BucketBefore[i].function)
                      => j <= i)
                  => last.result[FunctionName(BucketBefore[i].function)]
                        = ValueOf(BucketBefore[i].function)

\* two callbacks of one bucket that share a name and return different values
\* were both invoked
C23_Witness ==
    /\ Dispatched
    /\ \E i, j \in Returned :
          /\ i < j
          /\ BucketBefore[i].function /= BucketBefore[j].function
          /\ FunctionName(BucketBefore[i].function) = FunctionName(BucketBefore[j].function)
          /\ ValueOf(BucketBefore[i].function) /= ValueOf(BucketBefore[j].function)
          /\ last.result[FunctionName(BucketBefore[j].function)] = ValueOf(BucketBefore[j].function)

\* the events and namespaces that have a bucket in the table
BucketKeys(subs) == {b \in (DOMAIN subs) \X Namespaces : b[2] \in DOMAIN subs[b[1]]}

\* C24: unregister with the registration id of an existing subscription
\* returns true and removes exactly that subscription: every other one, also
\* one with the same callback in the same (event, namespace), stays, and the
\* order of the remaining subscriptions of every bucket is unchanged
C24_UnregisterRemovesOne ==
    (last.op = "unregister" /\ last.id \in AllIds(last.before)) =>
        /\ last.ret = TRUE
        /\ BucketKeys(SUBSCRIPTIONS) = BucketKeys(last.before)
        /\ \A b \in BucketKeys(last.before) :
              SUBSCRIPTIONS[b[1]][b[2]]
                  = SelectSeq(last.before[b[1]][b[2]],
                              LAMBDA s : s.registration_id /= last.id)
        /\ Cardinality(AllSubscriptions(SUBSCRIPTIONS))
              = Cardinality(AllSubscriptions(last.before)) - 1

\* the id unregistered was one of two subscriptions of the same callback in
\* the same bucket, and the other one is still there
C24_Witness ==
    /\ last.op = "unregister" /\ last.ret = TRUE
    /\ \E b \in BucketKeys(last.before) :
          \E i, j \in DOMAIN last.before[b[1]][b[2]] :
              /\ i /= j
              /\ last.before[b[1]][b[2]][i].registration_id = last.id
              /\ last.before[b[1]][b[2]][j].function = last.before[b[1]][b[2]][i].function
              /\ last.before[b[1]][b[2]][j] \in AllSubscriptions(SUBSCRIPTIONS)

\* ------------------------------------------------------------------------
\* Further properties of the installer
\* ------------------------------------------------------------------------
\* the last call was an install that returned true
InstalledTrue == Installed /\ ~last.raised /\ last.ret = TRUE

\* the regular files that lie below the staging directory of the last call's
\* mod, by their paths relative to it
StagedBelow == {r \in Members : Join(last.mod.mod_install_location, r) \in fs.staged}

\* C25: after a successful install the symlinks map has exactly one entry for
\* each regular file under the mod's staging directory, and maps the staged
\* file's path to the symlink target root joined with the file's path relative
\* to the staging root; no entry of an earlier install is carried over
C25_SymlinksMapIsRebuilt ==
    InstalledTrue =>
        /\ DOMAIN last.record.symlinks
              = {Join(last.mod.mod_install_location, r) : r \in StagedBelow}
        /\ \A r \in StagedBelow :
              last.record.symlinks[Join(last.mod.mod_install_location, r)]
                  = Join(last.mod.symlink_target, r)

\* a second successful install of a record whose stored row held the map of
\* the first, with a file in a subdirectory of the staging directory
C25_Witness ==
    /\ InstalledTrue
    /\ "textures/b.dds" \in StagedBelow
    /\ get_mod_by_id(last.dbBefore, last.mod.id).symlinks /= json_dumps(EmptyMap)
    /\ last.mod.symlinks /= json_dumps(EmptyMap)

\* C26: after an install call that returns true, every destination path in
\* the mod's symlinks map exists on disk as a link to, or a copy of, its
\* staged source file, also when the link of some file could not be created
\* and the copy was tried instead
C26_RecordedLinksExist ==
    InstalledTrue =>
        \A f \in DOMAIN last.record.symlinks :
            /\ last.record.symlinks[f] \in DOMAIN fs.links
            /\ fs.links[last.record.symlinks[f]].source = f

\* ------------------------------------------------------------------------
\* Further properties of the storage
\* ------------------------------------------------------------------------
\* the rows of the table the last update is about, as they were before it
TableBefore == IF last.op = "update_game" THEN last.dbBefore.games ELSE last.dbBefore.mods

\* the UPDATE of the last call names a column the games table has not: code
\* is written to uuid, the locations to mod_folder_location
NoSuchColumn ==
    /\ last.op = "update_game"
    /\ Supplied \cap {"code", "mod_archive_location", "mod_install_location"} /= {}

\* the UPDATE of the last call gives the record the name of another record
NameClash ==
    /\ "name" \in Supplied
    /\ \E i \in DOMAIN TableBefore :
          /\ TableBefore[i].id /= last.kwargs.id
          /\ TableBefore[i].name = last.kwargs.name

\* C27: update_game and update_mod return false whenever the UPDATE statement
\* fails, because the new name is the name of another record or a column does
\* not exist, and the stored rows are then unchanged
C27_FailedUpdateReported ==
    (Updating /\ StorageWorked /\ RowBefore /= NoneRow /\ (NoSuchColumn \/ NameClash)) =>
        /\ last.ret = FALSE
        /\ database = last.dbBefore

\* the code the record `id` of a table has, or None when it is not stored
CodeOf(rows, id) ==
    IF \E i \in DOMAIN rows : rows[i].id = id
    THEN (CHOOSE r \in Range(rows) : r.id = id).code
    ELSE None

\* no two records of a table share a code
DistinctCodes(rows) ==
    \A i, j \in DOMAIN rows : i /= j => rows[i].code /= rows[j].code

\* C28: across every insert and every update, the code of a Game or a Mod that
\* was stored before the call is the same afterwards, and no two Games and no
\* two Mods share a code
C28_CodeIsImmutableAndUnique ==
    last.op \in {"insert_game", "insert_mod", "update_game", "update_mod"} =>
        /\ \A i \in DOMAIN last.dbBefore.games :
              CodeOf(database.games, last.dbBefore.games[i].id) = last.dbBefore.games[i].code
        /\ \A i \in DOMAIN last.dbBefore.mods :
              CodeOf(database.mods, last.dbBefore.mods[i].id) = last.dbBefore.mods[i].code
        /\ DistinctCodes(database.games)
        /\ DistinctCodes(database.mods)

\* the last call asked for a game, or for a mod, by its code
AskedGame == last.op = "get_game_by_code" /\ StorageWorked
AskedMod == last.op = "get_mod_by_code" /\ StorageWorked

\* C29: a request for a game by a code returns the stored game that has the
\* code, a request for a mod by a code returns the stored mod that has it, and
\* a code no stored record has returns None
C29_GetByCode ==
    /\ AskedGame =>
          /\ \A i \in DOMAIN database.games :
                database.games[i].code = last.kwargs.game_code => last.ret = database.games[i]
          /\ (\A i \in DOMAIN database.games : database.games[i].code /= last.kwargs.game_code)
                => last.ret = NoneRow
    /\ AskedMod =>
          /\ \A i \in DOMAIN database.mods :
                database.mods[i].code = last.kwargs.mod_code => last.ret = database.mods[i]
          /\ (\A i \in DOMAIN database.mods : database.mods[i].code /= last.kwargs.mod_code)
                => last.ret = NoneRow

\* the last call was one of install_mod, uninstall_mod and update_mod of the
\* installer
InstallerCalled == last.op \in {"install_mod", "uninstall_mod", "update_mod"}

\* the installed flag the mod `id` has in a database, or None
InstalledFlag(db, id) ==
    IF get_mod_by_id(db, id) = NoneRow THEN None ELSE get_mod_by_id(db, id).installed

\* C30: after install_mod, uninstall_mod or update_mod of the installer,
\* whether it succeeded or not, the installed flag of the record passed in and
\* the installed flag of every stored mod are what they were before the call
C30_InstalledFlagKept ==
    InstallerCalled =>
        /\ last.record.installed = last.mod.installed
        /\ Len(database.mods) = Len(last.dbBefore.mods)
        /\ \A i \in DOMAIN last.dbBefore.mods :
              /\ database.mods[i].id = last.dbBefore.mods[i].id
              /\ database.mods[i].installed = last.dbBefore.mods[i].installed

\* an install that returned true and wrote the links of a mod marked as
\* installed to the storage
C30_Witness ==
    /\ InstalledTrue
    /\ last.mod.installed = TRUE
    /\ database /= last.dbBefore
    /\ C30_InstalledFlagKept

====
